---- MODULE Spec2Model ----
(***************************************************************************)
(* Model of game.py: a command-line quiz over a collection of Latin quotes *)
(* persisted in quotes.json.                                               *)
(*                                                                         *)
(* Strings are sequences of Unicode code points, the file is a sequence of *)
(* bytes.  An invocation of the program is a process p; its commands are   *)
(* cut at the system calls on the file and at the reads from the console.  *)
(***************************************************************************)
EXTENDS Integers, Sequences, FiniteSets, TLC

(***************************************************************************)
(* Bounds of the model.                                                    *)
(***************************************************************************)
\* add invocations started in one behaviour
MaxAdds == 2
\* largest --rounds value tried besides the default
MaxRoundsArg == 2

\* default of --rounds (play's signature)
DefaultRounds == 5

Procs == {1, 2}

(***************************************************************************)
(* Small helpers.                                                          *)
(***************************************************************************)
Range(s) == {s[i] : i \in DOMAIN s}

\* The concatenation of a sequence of sequences (halving, to keep the
\* evaluation shallow).
RECURSIVE Concat(_)
Concat(ss) ==
    IF ss = <<>> THEN <<>>
    ELSE IF Len(ss) = 1 THEN ss[1]
    ELSE LET h == Len(ss) \div 2
         IN  Concat(SubSeq(ss, 1, h)) \o Concat(SubSeq(ss, h + 1, Len(ss)))

(***************************************************************************)
(* Text the program handles, as code points.                               *)
(*   97 a   65 A   32 space   34 "   92 \   257 a-macron   256 A-macron    *)
(***************************************************************************)
K_latin_text == <<108, 97, 116, 105, 110, 95, 116, 101, 120, 116>>
K_english_translation ==
    <<101, 110, 103, 108, 105, 115, 104, 95, 116, 114, 97, 110, 115, 108, 97, 116, 105, 111, 110>>
K_author == <<97, 117, 116, 104, 111, 114>>
K_work == <<119, 111, 114, 107>>
K_notes == <<110, 111, 116, 101, 115>>
K_id == <<105, 100>>

\* The keys of a quote, in the order add() inserts them into the dict.
KeyOrder == <<"latin_text", "english_translation", "author", "work", "notes", "id">>

KeyCodes == [latin_text |-> K_latin_text,
             english_translation |-> K_english_translation,
             author |-> K_author,
             work |-> K_work,
             notes |-> K_notes,
             id |-> K_id]

(***************************************************************************)
(* json.dump(quotes, f, indent=2, ensure_ascii=False) written through a    *)
(* text file opened with encoding="utf-8".                                 *)
(***************************************************************************)
\* A changed EscapeChar: nothing is escaped.
EscapeNothing(c) == <<c>>

\* json.encoder: py_encode_basestring.  Only '"', '\' and the control
\* characters are escaped; everything else, non-ASCII included, is literal.
EscapeChar(c) ==
    IF c = 34 THEN <<92, 34>>
    ELSE IF c = 92 THEN <<92, 92>>
    ELSE IF c = 10 THEN <<92, 110>>
    ELSE IF c = 13 THEN <<92, 114>>
    ELSE IF c = 9 THEN <<92, 116>>
    ELSE <<c>>

\* The JSON text of a str: the escaped characters between double quotes.
EncodeString(s) == <<34>> \o Concat([i \in DOMAIN s |-> EscapeChar(s[i])]) \o <<34>>

\* int.__repr__ of a non-negative integer: its decimal digits.
RECURSIVE EncodeInt(_)
EncodeInt(n) == IF n < 10 THEN <<48 + n>> ELSE EncodeInt(n \div 10) \o <<48 + (n % 10)>>

EncodeValue(k, v) == IF k = "id" THEN EncodeInt(v) ELSE EncodeString(v)

\* newline followed by the indentation of nesting level `level` (indent=2)
NewlineIndent(level) == <<10>> \o [i \in 1..(2 * level) |-> 32]

\* One dict at nesting level 1: members at level 2, separated by ",", the key
\* separator is ": ".
EncodeMember(q, k) == EncodeString(KeyCodes[k]) \o <<58, 32>> \o EncodeValue(k, q[k])

EncodeQuote(q) ==
    LET ks == SelectSeq(KeyOrder, LAMBDA k : k \in DOMAIN q)
    IN  IF ks = <<>> THEN <<123, 125>>
        ELSE <<123>>
             \o Concat([i \in DOMAIN ks |->
                    (IF i > 1 THEN <<44>> ELSE <<>>) \o NewlineIndent(2) \o EncodeMember(q, ks[i])])
             \o NewlineIndent(1) \o <<125>>

\* The JSON text (code points) of the whole list.
EncodeList(quotes) ==
    IF quotes = <<>> THEN <<91, 93>>
    ELSE <<91>>
         \o Concat([i \in DOMAIN quotes |->
                (IF i > 1 THEN <<44>> ELSE <<>>) \o NewlineIndent(1) \o EncodeQuote(quotes[i])])
         \o NewlineIndent(0) \o <<93>>

\* The UTF-8 encoding of one code point below U+0800.
Utf8Char(c) == IF c < 128 THEN <<c>> ELSE <<192 + (c \div 64), 128 + (c % 64)>>

Utf8Encode(text) == Concat([i \in DOMAIN text |-> Utf8Char(text[i])])

\* The bytes save_quotes(quotes) writes.
Dump(quotes) == Utf8Encode(EncodeList(quotes))

(***************************************************************************)
(* json.load(f) on a text file opened with encoding="utf-8": f.read()      *)
(* decodes the whole file, then the text is parsed.  The grammar modelled  *)
(* is the one the program's files use: an array of objects whose members   *)
(* are the six keys of a quote, with string or integer values.  Files      *)
(* holding any other valid JSON are not among the files modelled.          *)
(***************************************************************************)
IsLead(b) == 194 <= b /\ b <= 223
IsCont(b) == 128 <= b /\ b <= 191

\* Whether the strict UTF-8 decoder accepts the bytes (sequences of one and
\* two bytes: the texts modelled hold code points below U+0800).
Utf8Valid(bs) ==
    \A i \in DOMAIN bs :
        /\ bs[i] < 128 \/ IsLead(bs[i]) \/ IsCont(bs[i])
        /\ IsLead(bs[i]) => (i < Len(bs) /\ IsCont(bs[i + 1]))
        /\ IsCont(bs[i]) => (i > 1 /\ IsLead(bs[i - 1]))

\* The code points of valid UTF-8 bytes.
Utf8Decode(bs) ==
    LET starts == SelectSeq([i \in DOMAIN bs |-> i], LAMBDA i : ~IsCont(bs[i]))
    IN  [j \in DOMAIN starts |->
            LET i == starts[j]
            IN  IF bs[i] < 128 THEN bs[i]
                ELSE (bs[i] - 192) * 64 + (bs[i + 1] - 128)]

\* json.decoder WHITESPACE: space, \t, \n, \r
JsonWs == {32, 9, 10, 13}

Fail == [ok |-> FALSE, pos |-> 0, val |-> <<>>]
Ok(pos, val) == [ok |-> TRUE, pos |-> pos, val |-> val]

\* Index of the first character at or after i that is no whitespace.
RECURSIVE SkipWs(_, _)
SkipWs(t, i) == IF i <= Len(t) /\ t[i] \in JsonWs THEN SkipWs(t, i + 1) ELSE i

\* json.decoder BACKSLASH: the character an escape letter stands for.
UnescapeChar(c) ==
    IF c = 110 THEN 10
    ELSE IF c = 114 THEN 13
    ELSE IF c = 116 THEN 9
    ELSE IF c = 98 THEN 8
    ELSE IF c = 102 THEN 12
    ELSE c

\* py_scanstring (strict): from i, just after the opening quote.  A control
\* character or an unterminated string is a JSONDecodeError.
RECURSIVE ScanString(_, _, _)
ScanString(t, i, acc) ==
    IF i > Len(t) THEN Fail
    ELSE IF t[i] = 34 THEN Ok(i + 1, acc)
    ELSE IF t[i] < 32 THEN Fail
    ELSE IF t[i] = 92
         THEN IF i + 1 <= Len(t) /\ t[i + 1] \in {34, 92, 47, 98, 102, 110, 114, 116}
              THEN ScanString(t, i + 2, Append(acc, UnescapeChar(t[i + 1])))
              ELSE Fail
    ELSE ScanString(t, i + 1, Append(acc, t[i]))

ParseString(t, i) ==
    IF i <= Len(t) /\ t[i] = 34 THEN ScanString(t, i + 1, <<>>) ELSE Fail

IsDigit(c) == 48 <= c /\ c <= 57

RECURSIVE ScanDigits(_, _, _)
ScanDigits(t, i, acc) ==
    IF i <= Len(t) /\ IsDigit(t[i]) THEN ScanDigits(t, i + 1, acc * 10 + (t[i] - 48))
    ELSE Ok(i, acc)

\* NUMBER_RE, integers only: 0 | [1-9][0-9]*
ParseInt(t, i) ==
    IF i > Len(t) \/ ~IsDigit(t[i]) THEN Fail
    ELSE IF t[i] = 48 THEN Ok(i + 1, 0)
    ELSE ScanDigits(t, i, 0)

KeyName(codes) ==
    IF \E k \in DOMAIN KeyCodes : KeyCodes[k] = codes
    THEN CHOOSE k \in DOMAIN KeyCodes : KeyCodes[k] = codes
    ELSE ""

\* One member "key": value, from i at the key's opening quote: the key, the
\* colon, the value (an integer for "id", a string for the other keys).
MemberDone(k, val) == IF val.ok THEN Ok(val.pos, <<k, val.val>>) ELSE Fail

MemberValue(t, k, v) ==
    IF v > Len(t) THEN Fail
    ELSE IF k = "id" THEN MemberDone(k, ParseInt(t, v))
    ELSE MemberDone(k, ParseString(t, v))

MemberColon(t, k, c) ==
    IF c > Len(t) \/ t[c] # 58 THEN Fail ELSE MemberValue(t, k, SkipWs(t, c + 1))

MemberKey(t, key) ==
    IF ~key.ok \/ KeyName(key.val) = "" THEN Fail
    ELSE MemberColon(t, KeyName(key.val), SkipWs(t, key.pos))

ParseMember(t, i) == MemberKey(t, ParseString(t, i))

\* dict[k] = v
Put(dict, k, v) == [x \in DOMAIN dict \cup {k} |-> IF x = k THEN v ELSE dict[x]]

EmptyDict == [k \in {} |-> 0]

\* The members of an object after "{" or ",": i is at a key.  acc is the dict
\* built so far; a repeated key keeps its last value.
RECURSIVE ParseMembers(_, _, _)
MembersNext(t, dict, e) ==
    IF e > Len(t) THEN Fail
    ELSE IF t[e] = 125 THEN Ok(e + 1, dict)
    ELSE IF t[e] = 44 THEN ParseMembers(t, SkipWs(t, e + 1), dict)
    ELSE Fail

MembersPut(t, acc, m) ==
    IF ~m.ok THEN Fail
    ELSE MembersNext(t, Put(acc, m.val[1], m.val[2]), SkipWs(t, m.pos))

ParseMembers(t, i, acc) == MembersPut(t, acc, ParseMember(t, i))

\* JSONObject, from i at "{".
ObjectBody(t, j) ==
    IF j <= Len(t) /\ t[j] = 125 THEN Ok(j + 1, EmptyDict)
    ELSE ParseMembers(t, j, EmptyDict)

ParseObject(t, i) ==
    IF i > Len(t) \/ t[i] # 123 THEN Fail ELSE ObjectBody(t, SkipWs(t, i + 1))

\* The items of an array after "[" or ",": i is at a value.
RECURSIVE ParseItems(_, _, _)
ItemsNext(t, list, e) ==
    IF e > Len(t) THEN Fail
    ELSE IF t[e] = 93 THEN Ok(e + 1, list)
    ELSE IF t[e] = 44 THEN ParseItems(t, SkipWs(t, e + 1), list)
    ELSE Fail

ItemsPut(t, acc, o) ==
    IF ~o.ok THEN Fail ELSE ItemsNext(t, Append(acc, o.val), SkipWs(t, o.pos))

ParseItems(t, i, acc) == ItemsPut(t, acc, ParseObject(t, i))

\* JSONArray, from i at "[".
ArrayBody(t, j) ==
    IF j <= Len(t) /\ t[j] = 93 THEN Ok(j + 1, <<>>) ELSE ParseItems(t, j, <<>>)

ParseArray(t, i) ==
    IF i > Len(t) \/ t[i] # 91 THEN Fail ELSE ArrayBody(t, SkipWs(t, i + 1))

\* JSONDecoder.decode: one value between whitespace, nothing after it
\* ("Extra data" is a JSONDecodeError too).
DecodeEnd(t, a) == IF a.ok /\ SkipWs(t, a.pos) = Len(t) + 1 THEN a ELSE Fail

Decode(t) == DecodeEnd(t, ParseArray(t, SkipWs(t, 1)))

\* What json.load makes of the file's bytes: the list, or the exception.
Loaded(a) ==
    IF a.ok THEN [exc |-> "none", val |-> a.val]
    ELSE [exc |-> "JSONDecodeError", val |-> <<>>]

JsonLoad(bs) ==
    IF ~Utf8Valid(bs) THEN [exc |-> "UnicodeDecodeError", val |-> <<>>]
    ELSE Loaded(Decode(Utf8Decode(bs)))

(***************************************************************************)
(* str.strip() and str.lower() on the code points modelled (below U+0130). *)
(***************************************************************************)
\* Characters str.strip() removes (str.isspace) among the code points below U+0130.
PyWhitespace == {9, 10, 11, 12, 13, 28, 29, 30, 31, 32, 133, 160}

Strip(s) ==
    LET keep == {j \in DOMAIN s : s[j] \notin PyWhitespace}
    IN  IF keep = {} THEN <<>>
        ELSE SubSeq(s, CHOOSE a \in keep : \A b \in keep : a <= b,
                       CHOOSE a \in keep : \A b \in keep : a >= b)

\* The lowercase mapping: A-Z, the Latin-1 capitals, and the capitals of
\* Latin Extended-A up to U+012F (even code points), where the macrons live.
LowerChar(c) ==
    IF 65 <= c /\ c <= 90 THEN c + 32
    ELSE IF 192 <= c /\ c <= 222 /\ c # 215 THEN c + 32
    ELSE IF 256 <= c /\ c <= 303 /\ c % 2 = 0 THEN c + 1
    ELSE c

Lower(s) == [j \in DOMAIN s |-> LowerChar(s[j])]

\* A changed AnswerMatches: the answers are compared as typed.
AnswerMatchesExactly(input, expected) == input = expected

\* line 106: user_input.strip().lower() == answer.strip().lower()
AnswerMatches(input, expected) == Lower(Strip(input)) = Lower(Strip(expected))

(***************************************************************************)
(* get_next_id                                                             *)
(***************************************************************************)
\* max(q["id"] for q in quotes): a left-to-right scan keeping the largest.
RECURSIVE MaxId(_, _, _)
MaxId(quotes, j, best) ==
    IF j > Len(quotes) THEN best
    ELSE MaxId(quotes, j + 1, IF quotes[j].id > best THEN quotes[j].id ELSE best)

\* A changed get_next_id: the largest id, without the + 1.
get_next_id_no_increment(quotes) ==
    IF quotes = <<>> THEN 1 ELSE MaxId(quotes, 2, quotes[1].id)

\* A changed get_next_id: one more than the id of the last quote.
get_next_id_after_last(quotes) ==
    IF quotes = <<>> THEN 1 ELSE quotes[Len(quotes)].id + 1

get_next_id(quotes) ==
    IF quotes = <<>> THEN 1 ELSE MaxId(quotes, 2, quotes[1].id) + 1

(***************************************************************************)
(* random.sample and random.choice                                         *)
(***************************************************************************)
\* A changed Samples: k draws with replacement (random.choices).
SamplesWithReplacement(population, k) ==
    {[j \in 1..k |-> population[pos[j]]] : pos \in [1..k -> DOMAIN population]}

\* random.sample(population, k), 0 <= k <= len: the elements at k distinct
\* positions, in any order.
Samples(population, k) ==
    {[j \in 1..k |-> population[pos[j]]] :
        pos \in {f \in [1..k -> DOMAIN population] :
                    \A a, b \in 1..k : a # b => f[a] # f[b]}}

game_modes == {"translate", "author", "work"}

\* lines 92-100: the field of the quote a mode asks for
AnswerOf(quote, mode) ==
    IF mode = "translate" THEN quote.english_translation
    ELSE IF mode = "author" THEN quote.author
    ELSE quote.work

(***************************************************************************)
(* The console: what the user may type.                                    *)
(***************************************************************************)
\* Answers to the five prompts of add (typer.prompt returns a non-empty str).
PromptInputs ==
    { [latin_text |-> <<257>>, english_translation |-> <<32, 65>>,
       author |-> <<97>>, work |-> <<34>>, notes |-> <<92>>],
      [latin_text |-> <<97, 257>>, english_translation |-> <<97>>,
       author |-> <<256>>, work |-> <<65, 32, 97>>, notes |-> <<97, 97>>] }

\* Answers typed in a round of play.
UserInputs == { <<97>>, <<32, 65, 32>>, <<257>> }

\* Values of --rounds.
RoundsArgs == ((0 - 1) .. MaxRoundsArg) \cup {DefaultRounds}

(***************************************************************************)
(* The file system: DATA_FILE.                                             *)
(***************************************************************************)
NoFile == [exists |-> FALSE, bytes |-> <<>>]

\* A changed OpenW: the file is created if missing but keeps its bytes.
OpenWithoutTruncate(f) == [exists |-> TRUE, bytes |-> f.bytes]

\* open("w"): the file is created if missing and truncated.
OpenW(f) == [exists |-> TRUE, bytes |-> <<>>]

\* The write of the buffered text when the file opened with "w" is closed
\* (the text is shorter than the file object's buffer): the bytes go to
\* offset 0 of whatever the file holds by then.
WriteAt0(f, bs) ==
    [exists |-> TRUE,
     bytes |-> bs \o SubSeq(f.bytes, Len(bs) + 1, Len(f.bytes))]

(***************************************************************************)
(* State.                                                                  *)
(***************************************************************************)
VARIABLES
    file,          \* quotes.json: whether it exists, and its bytes
    pc,            \* pc[p]: where invocation p is
    cmd,           \* cmd[p]: "add", "play", "list", or "" when p is not running
    new_quote,     \* add's new_quote
    quotes,        \* the list load_quotes returned, as the command holds it
    rounds,        \* play's --rounds
    game_quotes,   \* play's sample
    i,             \* play: rounds asked so far (the loop index)
    score,         \* play's score
    chosen_mode,   \* play: the mode of the last round
    user_input,    \* play: the last answer read
    answer,        \* play: the expected answer of the last round
    out,           \* lines printed by the invocation
    exc,           \* the exception that ended the invocation, or "none"
    nAdds,         \* history: add invocations started
    file0,         \* history: the file as it was when invocation p started
    fslog          \* history: loads and saves since the program last was at rest

vars == <<file, pc, cmd, new_quote, quotes, rounds, game_quotes, i, score,
          chosen_mode, user_input, answer, out, exc, nAdds, file0, fslog>>

playVars == <<rounds, game_quotes, i, score, chosen_mode, user_input, answer>>

Line(name, a, b) == [line |-> name, a |-> a, b |-> b]

Event(p, op) == [p |-> p, op |-> op]

Others(p) == Procs \ {p}

\* The values of an invocation's variables before it has set them.
Idle(p) ==
    /\ pc' = [pc EXCEPT ![p] = "idle"]
    /\ cmd' = [cmd EXCEPT ![p] = ""]
    /\ new_quote' = [new_quote EXCEPT ![p] = <<>>]
    /\ quotes' = [quotes EXCEPT ![p] = <<>>]
    /\ rounds' = [rounds EXCEPT ![p] = 0]
    /\ game_quotes' = [game_quotes EXCEPT ![p] = <<>>]
    /\ i' = [i EXCEPT ![p] = 0]
    /\ score' = [score EXCEPT ![p] = 0]
    /\ chosen_mode' = [chosen_mode EXCEPT ![p] = ""]
    /\ user_input' = [user_input EXCEPT ![p] = <<>>]
    /\ answer' = [answer EXCEPT ![p] = <<>>]
    /\ out' = [out EXCEPT ![p] = <<>>]
    /\ exc' = [exc EXCEPT ![p] = "none"]

InitLocals ==
    /\ pc = [p \in Procs |-> "idle"]
    /\ cmd = [p \in Procs |-> ""]
    /\ new_quote = [p \in Procs |-> <<>>]
    /\ quotes = [p \in Procs |-> <<>>]
    /\ rounds = [p \in Procs |-> 0]
    /\ game_quotes = [p \in Procs |-> <<>>]
    /\ i = [p \in Procs |-> 0]
    /\ score = [p \in Procs |-> 0]
    /\ chosen_mode = [p \in Procs |-> ""]
    /\ user_input = [p \in Procs |-> <<>>]
    /\ answer = [p \in Procs |-> <<>>]
    /\ out = [p \in Procs |-> <<>>]
    /\ exc = [p \in Procs |-> "none"]
    /\ nAdds = 0
    /\ file0 = [p \in Procs |-> NoFile]
    /\ fslog = <<>>

\* First run, or a quotes.json that is present and empty.
Init ==
    /\ file \in {NoFile, [exists |-> TRUE, bytes |-> <<>>]}
    /\ InitLocals

(***************************************************************************)
(* Starting an invocation.                                                 *)
(***************************************************************************)
Begin(p, c) ==
    /\ pc[p] = "idle"
    /\ pc' = [pc EXCEPT ![p] = "load"]
    /\ cmd' = [cmd EXCEPT ![p] = c]
    /\ file0' = [file0 EXCEPT ![p] = file]
    /\ fslog' = IF \A q \in Others(p) : pc[q] = "idle" THEN <<>> ELSE fslog
    /\ UNCHANGED <<file, quotes, game_quotes, i, score, chosen_mode, user_input,
                   answer, exc>>

\* add, lines 121-136: the banner, the five prompts, new_quote.
StartAdd(p) ==
    /\ nAdds < MaxAdds
    /\ Begin(p, "add")
    /\ \E typed \in PromptInputs : new_quote' = [new_quote EXCEPT ![p] = typed]
    /\ out' = [out EXCEPT ![p] = <<Line("AddBanner", 0, 0)>>]
    /\ nAdds' = nAdds + 1
    /\ UNCHANGED rounds

\* play --rounds r
StartPlay(p) ==
    /\ Begin(p, "play")
    /\ \E r \in RoundsArgs : rounds' = [rounds EXCEPT ![p] = r]
    /\ UNCHANGED <<new_quote, out, nAdds>>

\* list
StartList(p) ==
    /\ Begin(p, "list")
    /\ UNCHANGED <<new_quote, rounds, out, nAdds>>

(***************************************************************************)
(* load_quotes                                                             *)
(***************************************************************************)
\* lines 27-32: the file exists; read and parse it.  A JSONDecodeError gives
\* the empty list, any other exception leaves load_quotes.
LoadReturn(p, r) ==
    IF r.exc \in {"none", "JSONDecodeError"}
    THEN /\ quotes' = [quotes EXCEPT ![p] = r.val]
         /\ pc' = [pc EXCEPT ![p] = "loaded"]
         /\ fslog' = Append(fslog, Event(p, "load_end"))
         /\ exc' = exc
    ELSE /\ exc' = [exc EXCEPT ![p] = r.exc]
         /\ pc' = [pc EXCEPT ![p] = "crashed"]
         /\ UNCHANGED <<quotes, fslog>>

LoadExisting(p) ==
    /\ pc[p] = "load"
    /\ file.exists
    /\ LoadReturn(p, JsonLoad(file.bytes))
    /\ UNCHANGED <<file, cmd, new_quote, playVars, out, nAdds, file0>>

\* line 19: DATA_FILE.exists() is false
LoadMissing(p) ==
    /\ pc[p] = "load"
    /\ ~file.exists
    /\ pc' = [pc EXCEPT ![p] = "create_open"]
    /\ UNCHANGED <<file, cmd, new_quote, quotes, playVars, out, exc, nAdds, file0, fslog>>

\* line 22, save_quotes([]): open("w")
CreateOpen(p) ==
    /\ pc[p] = "create_open"
    /\ file' = OpenW(file)
    /\ pc' = [pc EXCEPT ![p] = "create_write"]
    /\ UNCHANGED <<cmd, new_quote, quotes, playVars, out, exc, nAdds, file0, fslog>>

\* lines 22-23, save_quotes([]): the dump reaches the file; return []
CreateWrite(p) ==
    /\ pc[p] = "create_write"
    /\ file' = WriteAt0(file, Dump(<<>>))
    /\ quotes' = [quotes EXCEPT ![p] = <<>>]
    /\ pc' = [pc EXCEPT ![p] = "loaded"]
    /\ fslog' = Append(fslog, Event(p, "load_end"))
    /\ UNCHANGED <<cmd, new_quote, playVars, out, exc, nAdds, file0>>

(***************************************************************************)
(* add                                                                     *)
(***************************************************************************)
\* line 139: new_quote["id"] = ...
WithId(quote, id) ==
    [k \in DOMAIN quote \cup {"id"} |-> IF k = "id" THEN id ELSE quote[k]]

\* A changed AppendQuote: the new quote goes first.
InsertFirst(list, quote) == <<quote>> \o list

\* line 140: quotes.append(new_quote)
AppendQuote(list, quote) == Append(list, quote)

\* lines 139-141 up to save_quotes' open("w")
AddSaveOpen(p) ==
    /\ pc[p] = "loaded"
    /\ cmd[p] = "add"
    /\ LET q == WithId(new_quote[p], get_next_id(quotes[p]))
       IN  /\ new_quote' = [new_quote EXCEPT ![p] = q]
           /\ quotes' = [quotes EXCEPT ![p] = AppendQuote(quotes[p], q)]
    /\ file' = OpenW(file)
    /\ pc' = [pc EXCEPT ![p] = "save_write"]
    /\ fslog' = Append(fslog, Event(p, "save_open"))
    /\ UNCHANGED <<cmd, playVars, out, exc, nAdds, file0>>

\* lines 43 and 143: the dump reaches the file; the success line
AddSaveWrite(p) ==
    /\ pc[p] = "save_write"
    /\ file' = WriteAt0(file, Dump(quotes[p]))
    /\ out' = [out EXCEPT ![p] = Append(out[p], Line("Added", new_quote[p].id, 0))]
    /\ pc' = [pc EXCEPT ![p] = "done"]
    /\ fslog' = Append(fslog, Event(p, "save_write"))
    /\ UNCHANGED <<cmd, new_quote, quotes, playVars, exc, nAdds, file0>>

(***************************************************************************)
(* play                                                                    *)
(***************************************************************************)
\* A changed NoQuotesFound: the test is against None, which load_quotes
\* never returns.
NoQuotesIsNone(list) == FALSE

\* line 72: not quotes
NoQuotesFound(list) == list = <<>>

Min(a, b) == IF a <= b THEN a ELSE b

\* line 80
num_rounds(p) == Min(rounds[p], Len(quotes[p]))

\* lines 72-74: the message, then typer.Exit(), which ends the command with
\* exit code 0
PlayEmpty(p) ==
    /\ pc[p] = "loaded"
    /\ cmd[p] = "play"
    /\ NoQuotesFound(quotes[p])
    /\ out' = [out EXCEPT ![p] = Append(out[p], Line("NoQuotes", 0, 0))]
    /\ pc' = [pc EXCEPT ![p] = "done"]
    /\ UNCHANGED <<file, cmd, new_quote, quotes, playVars, exc, nAdds, file0, fslog>>

\* lines 76-83: random.sample raises ValueError for a negative sample size
PlaySample(p) ==
    /\ pc[p] = "loaded"
    /\ cmd[p] = "play"
    /\ ~NoQuotesFound(quotes[p])
    /\ out' = [out EXCEPT ![p] = Append(out[p], Line("Welcome", 0, 0))]
    /\ score' = [score EXCEPT ![p] = 0]
    /\ IF num_rounds(p) < 0
       THEN /\ exc' = [exc EXCEPT ![p] = "ValueError"]
            /\ pc' = [pc EXCEPT ![p] = "crashed"]
            /\ UNCHANGED game_quotes
       ELSE /\ \E sample \in Samples(quotes[p], num_rounds(p)) :
                    game_quotes' = [game_quotes EXCEPT ![p] = sample]
            /\ pc' = [pc EXCEPT ![p] = "round"]
            /\ exc' = exc
    /\ UNCHANGED <<file, cmd, new_quote, quotes, rounds, i, chosen_mode, user_input,
                   answer, nAdds, file0, fslog>>

\* lines 85-110: one round
PlayRound(p) ==
    /\ pc[p] = "round"
    /\ i[p] < Len(game_quotes[p])
    /\ \E mode \in game_modes, typed \in UserInputs :
         LET quote == game_quotes[p][i[p] + 1]
             expected == AnswerOf(quote, mode)
             correct == AnswerMatches(typed, expected)
         IN  /\ chosen_mode' = [chosen_mode EXCEPT ![p] = mode]
             /\ answer' = [answer EXCEPT ![p] = expected]
             /\ user_input' = [user_input EXCEPT ![p] = typed]
             /\ score' = [score EXCEPT ![p] = IF correct THEN score[p] + 1 ELSE score[p]]
             /\ out' = [out EXCEPT ![p] = out[p] \o
                           << Line("Round", i[p] + 1, num_rounds(p)),
                              Line(IF correct THEN "Correct" ELSE "Incorrect", 0, 0) >>]
    /\ i' = [i EXCEPT ![p] = i[p] + 1]
    /\ UNCHANGED <<file, pc, cmd, new_quote, quotes, rounds, game_quotes, exc, nAdds,
                   file0, fslog>>

\* lines 112-113
PlayOver(p) ==
    /\ pc[p] = "round"
    /\ i[p] = Len(game_quotes[p])
    /\ out' = [out EXCEPT ![p] = out[p] \o
                  << Line("GameOver", 0, 0), Line("Score", score[p], num_rounds(p)) >>]
    /\ pc' = [pc EXCEPT ![p] = "done"]
    /\ UNCHANGED <<file, cmd, new_quote, quotes, playVars, exc, nAdds, file0, fslog>>

(***************************************************************************)
(* list                                                                    *)
(***************************************************************************)
\* lines 152-165: one "Quote" line per quote, with 1 when its notes line is
\* printed
ListPrint(p) ==
    /\ pc[p] = "loaded"
    /\ cmd[p] = "list"
    /\ out' = [out EXCEPT ![p] =
                  IF quotes[p] = <<>> THEN <<Line("Empty", 0, 0)>>
                  ELSE <<Line("Header", 0, 0)>>
                       \o [j \in DOMAIN quotes[p] |->
                              Line("Quote", quotes[p][j].id,
                                   IF quotes[p][j].notes # <<>> THEN 1 ELSE 0)]
                       \o <<Line("Footer", 0, 0)>>]
    /\ pc' = [pc EXCEPT ![p] = "done"]
    /\ UNCHANGED <<file, cmd, new_quote, quotes, playVars, exc, nAdds, file0, fslog>>

(***************************************************************************)
(* The end of an invocation: the process is gone, with its memory.         *)
(***************************************************************************)
Exit(p) ==
    /\ pc[p] \in {"done", "crashed"}
    /\ Idle(p)
    /\ UNCHANGED <<file, nAdds, file0, fslog>>

(***************************************************************************)
(* Specifications.                                                         *)
(***************************************************************************)
Load(p) == LoadExisting(p) \/ LoadMissing(p) \/ CreateOpen(p) \/ CreateWrite(p)

Add(p) == StartAdd(p) \/ AddSaveOpen(p) \/ AddSaveWrite(p)

Play(p) == StartPlay(p) \/ PlayEmpty(p) \/ PlaySample(p) \/ PlayRound(p) \/ PlayOver(p)

List(p) == StartList(p) \/ ListPrint(p)

\* One user, one invocation at a time.
Next == Load(1) \/ Add(1) \/ Play(1) \/ List(1) \/ Exit(1)

Spec == Init /\ [][Next]_vars

(***************************************************************************)
(* A quotes.json left by a damaged write: a proper prefix of the file one  *)
(* add would have written.                                                 *)
(***************************************************************************)
StoredQuotes ==
    PromptInputs \cup
    { [latin_text |-> <<65, 9>>, english_translation |-> <<97, 10, 97>>,
       author |-> <<257, 256>>, work |-> <<92, 34>>, notes |-> <<>>] }

DamagedFiles ==
    LET whole == Dump(<<WithId(CHOOSE q \in PromptInputs : q.latin_text = <<257>>, 1)>>)
    IN  {[exists |-> TRUE, bytes |-> SubSeq(whole, 1, n)] : n \in 1..(Len(whole) - 1)}

InitDamaged ==
    /\ file \in {NoFile, [exists |-> TRUE, bytes |-> <<>>]} \cup DamagedFiles
    /\ InitLocals

SpecDamaged == InitDamaged /\ [][Next]_vars

(***************************************************************************)
(* A quotes.json written by hand or by earlier use: the ids need not be    *)
(* contiguous nor increasing.  Commands that write or show the collection. *)
(***************************************************************************)
StoredIds == {3, 7}

StoredCollections ==
    {<<WithId(q, n)>> : q \in StoredQuotes, n \in StoredIds}
    \cup {<<WithId(x[1], x[3]), WithId(x[2], x[4])>> :
            x \in {y \in StoredQuotes \X StoredQuotes \X StoredIds \X StoredIds :
                      y[1] # y[2] /\ y[3] # y[4]}}

InitStored ==
    /\ file \in {NoFile} \cup {[exists |-> TRUE, bytes |-> Dump(c)] : c \in StoredCollections}
    /\ InitLocals

NextStored == Load(1) \/ Add(1) \/ List(1) \/ Exit(1)

SpecStored == InitStored /\ [][NextStored]_vars

(***************************************************************************)
(* Two invocations of add at once: nothing locks the file.                 *)
(***************************************************************************)
NextConcurrent == \E p \in Procs : Load(p) \/ Add(p) \/ Exit(p)

SpecConcurrent == Init /\ [][NextConcurrent]_vars

(***************************************************************************)
(* Properties.                                                             *)
(***************************************************************************)
\* The collection the file holds: what load_quotes would return for it.
Persisted(f) == IF f.exists THEN JsonLoad(f.bytes).val ELSE <<>>

Front(list) == SubSeq(list, 1, Len(list) - 1)

IdsDistinctPositive(list) ==
    \A a, b \in DOMAIN list :
        /\ list[a].id \in Nat
        /\ list[a].id >= 1
        /\ a # b => list[a].id # list[b].id

Finished(p) == pc[p] \in {"done", "crashed"}

\* The questions an invocation has asked: its "Round" lines.
Asked(p) == Cardinality({j \in DOMAIN out[p] : out[p][j].line = "Round"})

Max(a, b) == IF a >= b THEN a ELSE b

\* C1: starting from a missing or empty quotes file, in every state reached
\* by add, play and list invocations the ids of the persisted collection are
\* pairwise distinct integers >= 1.
C1_IdsUnique == IdsDistinctPositive(Persisted(file))

C1_Witness == pc[1] = "idle" /\ Len(Persisted(file)) >= 2

\* C2: the id add gives the new quote is 1 when the loaded collection is
\* empty and otherwise one more than the largest loaded id, so it is greater
\* than every loaded id, whatever the order and the gaps of the loaded ids.
NewIdIsNext(loaded, id) ==
    /\ \A j \in DOMAIN loaded : id > loaded[j].id
    /\ loaded = <<>> => id = 1
    /\ loaded # <<>> => \E j \in DOMAIN loaded : id = loaded[j].id + 1

C2_NextId ==
    \A p \in Procs :
        (cmd[p] = "add" /\ pc[p] \in {"save_write", "done"})
            => /\ quotes[p] # <<>>
               /\ new_quote[p] = quotes[p][Len(quotes[p])]
               /\ NewIdIsNext(Front(quotes[p]), new_quote[p].id)

C2_Witness ==
    /\ cmd[1] = "add" /\ pc[1] = "done"
    /\ Len(quotes[1]) = 3
    /\ quotes[1][1].id = 7 /\ quotes[1][2].id = 3 /\ new_quote[1].id = 8

\* C3 as claimed: a play session on k > 0 quotes with --rounds r asks
\* exactly min(r, k) questions, no quote twice.
NoQuoteAskedTwice(p) ==
    \A a, b \in 1..i[p] : a # b => game_quotes[p][a] # game_quotes[p][b]

C3_Original ==
    \A p \in Procs :
        (cmd[p] = "play" /\ quotes[p] # <<>>)
            => /\ NoQuoteAskedTwice(p)
               /\ Finished(p) => Asked(p) = Min(rounds[p], Len(quotes[p]))

\* C3 amended: the session asks exactly max(0, min(r, k)) questions (none
\* when r <= 0), no quote twice.
C3_Amended ==
    \A p \in Procs :
        (cmd[p] = "play" /\ quotes[p] # <<>>)
            => /\ NoQuoteAskedTwice(p)
               /\ Asked(p) = i[p]
               /\ Finished(p) => Asked(p) = Max(0, Min(rounds[p], Len(quotes[p])))

C3_Witness ==
    /\ cmd[1] = "play" /\ pc[1] = "done"
    /\ Len(quotes[1]) = 2 /\ rounds[1] = DefaultRounds /\ Asked(1) = 2

\* C4: an add leaves the persisted collection as it was before the add,
\* followed by the one new quote; play and list leave it as it was.
C4_AddOnlyAppends ==
    \A p \in Procs :
        pc[p] = "done" =>
            Persisted(file) = IF cmd[p] = "add"
                              THEN Persisted(file0[p]) \o <<new_quote[p]>>
                              ELSE Persisted(file0[p])

C4_Witness ==
    /\ cmd[1] = "add" /\ pc[1] = "done"
    /\ Len(Persisted(file0[1])) = 1 /\ Len(Persisted(file)) = 2

\* C5 as claimed: on a missing file, or a file whose content is empty or
\* invalid, load_quotes raises nothing and returns the empty collection
\* (creating the missing file with an empty array), and the command goes on
\* to its end without an exception.
Unreadable(f) == ~f.exists \/ JsonLoad(f.bytes).exc # "none"

C5_Original ==
    \A p \in Procs :
        (cmd[p] # "" /\ Unreadable(file0[p]))
            => /\ exc[p] = "none"
               /\ pc[p] # "crashed"
               /\ pc[p] = "loaded" => (quotes[p] = <<>> /\ file.exists)

\* C6: play on an empty collection prints the "no quotes" line and nothing
\* else, asks no question, reads no answer, and ends without an exception.
C6_EmptyPlay ==
    \A p \in Procs :
        (cmd[p] = "play" /\ quotes[p] = <<>> /\ pc[p] \notin {"load", "create_open", "create_write"})
            => /\ pc[p] \in {"loaded", "done"}
               /\ exc[p] = "none"
               /\ i[p] = 0 /\ user_input[p] = <<>> /\ game_quotes[p] = <<>>
               /\ pc[p] = "done" => out[p] = <<Line("NoQuotes", 0, 0)>>

C6_Witness ==
    /\ cmd[1] = "play" /\ pc[1] = "done"
    /\ file0[1] = [exists |-> TRUE, bytes |-> <<>>]
    /\ out[1] = <<Line("NoQuotes", 0, 0)>>

\* C7: loading what save_quotes(q) wrote gives q back, every field of every
\* quote, in order, non-ASCII characters included.
C7_RoundTrip ==
    \A p \in Procs :
        (cmd[p] = "add" /\ pc[p] = "done")
            => /\ file.bytes = Dump(quotes[p])
               /\ JsonLoad(file.bytes) = [exc |-> "none", val |-> quotes[p]]

C7_Witness ==
    /\ cmd[1] = "add" /\ pc[1] = "done"
    /\ Len(quotes[1]) = 3
    /\ \E a, b \in DOMAIN quotes[1] :
          /\ 257 \in Range(quotes[1][a].latin_text)
          /\ 34 \in Range(quotes[1][a].work)
          /\ 10 \in Range(quotes[1][b].english_translation)
          /\ 92 \in Range(quotes[1][b].work)

\* C8 as claimed: on a non-empty collection play raises no error whatever
\* the value of --rounds, and ends printing the score line.
C8_Original ==
    \A p \in Procs :
        (cmd[p] = "play" /\ quotes[p] # <<>>)
            => /\ exc[p] = "none"
               /\ Finished(p) =>
                    /\ pc[p] = "done"
                    /\ out[p][Len(out[p])] = Line("Score", score[p], num_rounds(p))

\* C9: a round adds 1 to the score exactly when the answer typed, trimmed
\* and case-folded, equals the expected answer of the mode chosen, trimmed
\* and case-folded, and leaves the score as it was otherwise; the score is
\* the number of rounds answered correctly, between 0 and the rounds played,
\* and the final score is at most n.
RECURSIVE TrimLeft(_)
TrimLeft(s) == IF s # <<>> /\ Head(s) = 32 THEN TrimLeft(Tail(s)) ELSE s

RECURSIVE TrimRight(_)
TrimRight(s) == IF s # <<>> /\ s[Len(s)] = 32 THEN TrimRight(Front(s)) ELSE s

\* Case folding on the letters of the model: A and a, A-macron and a-macron.
FoldedLetter(c) == IF c = 65 THEN 97 ELSE IF c = 256 THEN 257 ELSE c

TrimFold(s) == [j \in DOMAIN TrimLeft(TrimRight(s)) |-> FoldedLetter(TrimLeft(TrimRight(s))[j])]

ExpectedOf(quote, mode) ==
    CASE mode = "translate" -> quote.english_translation
      [] mode = "author" -> quote.author
      [] mode = "work" -> quote.work

RoundScored(p) ==
    (i'[p] = i[p] + 1)
        => /\ answer'[p] = ExpectedOf(game_quotes[p][i'[p]], chosen_mode'[p])
           /\ score'[p] = IF TrimFold(user_input'[p]) = TrimFold(answer'[p])
                          THEN score[p] + 1
                          ELSE score[p]

CorrectLines(p) == Cardinality({j \in DOMAIN out[p] : out[p][j].line = "Correct"})

ScoreInRange(p) ==
    cmd[p] = "play"
        => /\ 0 <= score[p] /\ score[p] <= i[p] /\ i[p] <= Len(game_quotes[p])
           /\ score[p] = CorrectLines(p)
           /\ (pc[p] = "done" /\ quotes[p] # <<>>)
                => /\ out[p][Len(out[p])] = Line("Score", score[p], num_rounds(p))
                   /\ score[p] <= num_rounds(p)

C9_Score ==
    /\ [][\A p \in Procs : RoundScored(p)]_vars
    /\ [](\A p \in Procs : ScoreInRange(p))

C9_Witness ==
    /\ pc[1] = "done" /\ cmd[1] = "play"
    /\ score[1] = 2 /\ i[1] = 2
    /\ user_input[1] = <<32, 65, 32>>
    /\ answer[1] \in {<<97>>, <<32, 65>>}

\* C10 as claimed: when two adds both load before either saves, the file
\* after both saves holds the last writer's collection and nothing else
\* (what was loaded, then the last writer's quote), and its ids are distinct.
Ops(kind) == SelectSeq(fslog, LAMBDA e : e.op = kind)

Saves == SelectSeq(fslog, LAMBDA e : e.op \in {"save_open", "save_write"})

TwoAddsDone ==
    /\ \A p \in Procs : pc[p] = "done" /\ cmd[p] = "add"
    /\ Len(Ops("load_end")) = 2 /\ Len(Saves) = 4

BothLoadBeforeEitherSaves ==
    \A a, b \in DOMAIN fslog :
        (fslog[a].op = "load_end" /\ fslog[b].op = "save_open") => a < b

LastWriter == fslog[Len(fslog)].p

FirstWriter == CHOOSE p \in Procs : p # LastWriter

LastWriterWins ==
    /\ fslog[Len(fslog)].op = "save_write"
    /\ Front(quotes[1]) = Front(quotes[2])
    /\ file.bytes = Dump(quotes[LastWriter])
    /\ Persisted(file) = Front(quotes[FirstWriter]) \o <<new_quote[LastWriter]>>
    /\ IdsDistinctPositive(Persisted(file))

C10_Original == (TwoAddsDone /\ BothLoadBeforeEitherSaves) => LastWriterWins

\* C10 amended: the same, provided the two saves do not overlap: one save
\* has opened, written and closed the file before the other opens it.
SavesOverlap == Saves[1].p # Saves[2].p

C10_Amended ==
    (TwoAddsDone /\ BothLoadBeforeEitherSaves /\ ~SavesOverlap) => LastWriterWins

C10_Witness ==
    /\ TwoAddsDone /\ BothLoadBeforeEitherSaves /\ ~SavesOverlap /\ LastWriterWins
    /\ new_quote[1] # new_quote[2]
    /\ Len(Dump(quotes[LastWriter])) < Len(Dump(quotes[FirstWriter]))

====
